---- MODULE Spec2Model ----
(***************************************************************************)
(* A model of eth_client_utils: BaseClient (the request queue, the worker  *)
(* thread of process_requests, the results registry and make_request),     *)
(* JSONRPCBaseClient's get_nonce and default_from_address, and the polling *)
(* helpers wait_for_block and wait_for_transaction.                        *)
(*                                                                         *)
(* Threads interleave at the granularity of the statements that touch      *)
(* shared state (the queue, the results dict, the clock, the transport).   *)
(* Time is a discrete clock that Tick advances between any two steps.      *)
(***************************************************************************)
EXTENDS Integers, Sequences, FiniteSets, TLC

\* ------------------------------------------------------------------ bounds
MaxTime == 2          \* the clock runs over 0..MaxTime
MaxTimeout == 1       \* async_timeout is drawn from 1..MaxTimeout
MaxRequests == 2      \* make_request is invoked at most this many times
MaxWait == 2          \* max_wait is drawn from 0..MaxWait
MaxSleep == 2         \* sleep_time is drawn from 0..MaxSleep
MaxHeight == 2        \* block heights run over 0..MaxHeight
MaxQueries == 4       \* the node answers at most this many height queries
MaxAttempts == 4      \* the node answers at most this many receipt queries
MaxNonceCalls == 3    \* get_nonce is invoked at most this many times
MaxReads == 3         \* default_from_address is read at most this many times

Callers == {"c1", "c2"}          \* caller threads
Worker == "worker"               \* the request thread of process_requests
Threads == Callers \cup {Worker}
Ids == 1..MaxRequests            \* the uuid4 values handed out, in order

\* The (method, params) pairs callers pass to make_request.
RequestArgs ==
    { <<"eth_coinbase", <<>> >>, <<"eth_fail", <<>> >> }

NoArgs == <<"", <<>> >>

VARIABLES
    is_async,              \* BaseClient.is_async
    async_timeout,         \* BaseClient.async_timeout
    now,                   \* time.time()
    request_queue,         \* BaseClient.request_queue (FIFO of <<id, args>>)
    results,               \* BaseClient.results (dict id -> response)
    worker,                \* the frame of process_requests
    frame,                 \* the frame of make_request in each caller thread
    tstate,                \* where each thread is inside _make_request
    request_in_progress,   \* the transport stub's _request_in_progress
    issued,                \* the number of make_request calls begun (uuid source)
    produced,              \* history: id -> how the worker's transport call ended
    consumed,              \* history: the ids make_request has popped
    late,                  \* history: the ids published after the timeout of the caller's latest call
    early,                 \* history: the ids published before the timeout of a call not yet left
    block_number,          \* wait_for_block's argument block_number
    max_wait,              \* wait_for_block's argument max_wait
    sleep_time,            \* wait_for_block's argument sleep_time
    wfb,                   \* the frame of wait_for_block
    answers,               \* history: what get_block_number returned, in order
    fetched,               \* history: the arguments of get_block_by_number, in order
    wft,                   \* the frame of wait_for_transaction
    receipts,              \* history: what get_transaction_receipt returned, in order
    nonce,                 \* JSONRPCBaseClient._nonce
    gn,                    \* the frame of get_nonce in each caller thread
    returned,              \* history: the values get_nonce returned, in order
    coinbase_cache,        \* JSONRPCBaseClient._coinbase_cache
    coinbase_cache_til,    \* JSONRPCBaseClient._coinbase_cache_til
    dfa,                   \* the frame of the property default_from_address
    cached_at,             \* history: when get_coinbase returned the cached value
    reads                  \* the number of reads of default_from_address begun

clientVars ==
    <<is_async, async_timeout, now, request_queue, results, worker, frame,
      tstate, request_in_progress, issued, produced, consumed, late, early>>

\* The client's state without the clock.
clientState ==
    <<is_async, async_timeout, request_queue, results, worker, frame,
      tstate, request_in_progress, issued, produced, consumed, late, early>>

blockVars == <<block_number, max_wait, sleep_time, wfb, answers, fetched>>

txnVars == <<wft, receipts>>

nonceVars == <<nonce, gn, returned>>

cacheVars == <<coinbase_cache, coinbase_cache_til, dfa, cached_at, reads>>

\* The state of the helpers around the client.
helperVars == <<txnVars, nonceVars, cacheVars>>

vars == <<clientVars, blockVars, helperVars>>

\* ------------------------------------------------------------ python values
\* A Python object is either a JSON value or an instance of Exception.
JsonValue(v) == [type |-> "json", v |-> v]
ExceptionObj(v) == [type |-> "exc", v |-> v]
\* Mutant: the instance test never recognises an exception.
isinstance_Never(obj) == FALSE

isinstance_Exception(obj) == obj.type = "exc"

AsyncError == ExceptionObj("AsyncError: Request already in progress")
TimeoutValueError(id) == ExceptionObj(<<"ValueError: Timeout waiting for", id>>)

\* How a call ends.
Return(obj) == [kind |-> "return", obj |-> obj]
Raise(obj) == [kind |-> "raise", obj |-> obj]
NoOutcome == [kind |-> "none", obj |-> JsonValue("None")]

\* The deterministic transport: the body of a concrete _make_request.  The
\* transport returns JSON values only and signals failure by raising.
StubResult(args) ==
    IF args[1] = "eth_fail"
    THEN Raise(ExceptionObj(<<"TransportError", args>>))
    ELSE Return(JsonValue(<<"result", args>>))

\* ------------------------------------------------------------------- frames
IdleFrame ==
    [pc |-> "idle", request_id |-> 0, args |-> NoArgs, start |-> 0,
     enq |-> 0, ret |-> NoOutcome]

IdleWorker(pc) == [pc |-> pc, id |-> 0, args |-> NoArgs, response |-> JsonValue("None")]

IdleWfb ==
    [pc |-> "off", start |-> 0, latest_block_number |-> 0, asked |-> 0,
     ret |-> NoOutcome]

\* Python's None.
PyNone == JsonValue("None")

IdleWft ==
    [pc |-> "off", start |-> 0, txn_receipt |-> PyNone, begun |-> 0,
     ret |-> NoOutcome]

IdleGn == [pc |-> "idle", tmp |-> 0, floor |-> 0, ret |-> 0]

IdleDfa == [pc |-> "idle", ret |-> NoOutcome]

\* wait_for_transaction is not running.
TxnOff ==
    /\ wft = IdleWft
    /\ receipts = <<>>

\* `_nonce = 0`, and no thread inside get_nonce.
NonceOff ==
    /\ nonce = 0
    /\ gn = [c \in Callers |-> IdleGn]
    /\ returned = <<>>

\* `_coinbase_cache = None`, `_coinbase_cache_til = None`, and nobody reading
\* default_from_address.
CacheOff ==
    /\ coinbase_cache = PyNone
    /\ coinbase_cache_til = PyNone
    /\ dfa = IdleDfa
    /\ cached_at = 0
    /\ reads = 0

HelpersOff == TxnOff /\ NonceOff /\ CacheOff

\* wait_for_block is not running.
BlockOff ==
    /\ block_number = 0
    /\ max_wait = 0
    /\ sleep_time = 0
    /\ wfb = IdleWfb
    /\ answers = <<>>
    /\ fetched = <<>>

\* BaseClient.__init__
ClientInit ==
    /\ is_async \in BOOLEAN
    /\ async_timeout \in 1..MaxTimeout
    /\ now = 0
    /\ request_queue = <<>>
    /\ results = <<>>
    /\ worker = IdleWorker(IF is_async THEN "get" ELSE "absent")
    /\ frame = [c \in Callers |-> IdleFrame]
    /\ tstate = [t \in Threads |-> "out"]
    /\ request_in_progress = FALSE
    /\ issued = 0
    /\ produced = <<>>
    /\ consumed = {}
    /\ late = {}
    /\ early = {}

Init == ClientInit /\ BlockOff /\ HelpersOff

\* The threads currently executing inside _make_request.
InTransport == {t \in Threads : tstate[t] # "out"}

\* Mutant: the worker calls _make_request without forwarding the arguments.
TransportArgsDropped(t) == IF t = Worker THEN NoArgs ELSE frame[t].args

\* The arguments thread t passed to _make_request.
TransportArgs(t) == IF t = Worker THEN worker.args ELSE frame[t].args

\* time passes
Tick ==
    /\ now < MaxTime
    /\ now' = now + 1
    /\ UNCHANGED <<clientState, blockVars, helperVars>>

\* ---------------------------------------------------------- make_request
\* Mutant: the mode test is inverted.
UsesQueueInverted == ~is_async

\* Mutant: every client enqueues, whatever its mode.
UsesQueueAlways == TRUE

\* `if self.is_async:`: whether make_request goes through the queue.
UsesQueue == is_async

\* Mutant: the loop test lets the deadline itself through.
LoopTestPassesInclusive(c) == now - frame[c].start <= async_timeout

\* Mutant: the polling loop never looks at the clock.
LoopTestPassesAlways(c) == TRUE

\* `time.time() - start < self.async_timeout`, the test of the polling loop.
LoopTestPasses(c) == now - frame[c].start < async_timeout

\* make_request ends in caller c with outcome ret: its locals start and the
\* enqueue time are dead.
Done(c, ret) ==
    [frame[c] EXCEPT !.pc = "done", !.ret = ret, !.start = 0, !.enq = 0]

\* Mutant: the queue hands out the newest item first.
QueuePutFront(q, item) == <<item>> \o q

\* Queue.put: the item joins the back of the unbounded FIFO queue.
QueuePut(q, item) == Append(q, item)

\* make_request is called with args.  Asynchronous: request_id = uuid.uuid4()
\* and request_queue.put((request_id, args, kwargs)).  Synchronous: the
\* caller's own thread enters _make_request.
MakeRequest(c, args) ==
    /\ UNCHANGED <<blockVars, helperVars>>
    /\ frame[c].pc \in {"idle", "done"}
    /\ issued < MaxRequests
    /\ issued' = issued + 1
    /\ IF UsesQueue
       THEN /\ request_queue' = QueuePut(request_queue, <<issued + 1, args>>)
            /\ frame' = [frame EXCEPT ![c] =
                   [IdleFrame EXCEPT !.pc = "start", !.request_id = issued + 1,
                                     !.args = args, !.enq = now]]
            /\ UNCHANGED tstate
       ELSE /\ frame' = [frame EXCEPT ![c] =
                   [IdleFrame EXCEPT !.pc = "direct", !.args = args]]
            /\ tstate' = [tstate EXCEPT ![c] = "check"]
            /\ UNCHANGED request_queue
    /\ early' = early \ {frame[c].request_id}
    /\ late' = late \ {frame[c].request_id}
    /\ UNCHANGED <<is_async, async_timeout, now, results, worker,
                   request_in_progress, produced, consumed>>

\* start = time.time()
StartClock(c) ==
    /\ UNCHANGED <<blockVars, helperVars>>
    /\ frame[c].pc = "start"
    /\ frame' = [frame EXCEPT ![c].pc = "loop", ![c].start = now]
    /\ UNCHANGED <<is_async, async_timeout, now, request_queue, results, worker,
                   tstate, request_in_progress, issued, produced, consumed, late, early>>

\* The `while` test; when it fails: raise ValueError("Timeout waiting for ...").
LoopTest(c) ==
    /\ UNCHANGED <<blockVars, helperVars>>
    /\ frame[c].pc = "loop"
    /\ IF LoopTestPasses(c)
       THEN frame' = [frame EXCEPT ![c].pc = "check"]
       ELSE frame' = [frame EXCEPT ![c] =
                Done(c, Raise(TimeoutValueError(frame[c].request_id)))]
    /\ UNCHANGED <<is_async, async_timeout, now, request_queue, results, worker,
                   tstate, request_in_progress, issued, produced, consumed, late, early>>

\* `if request_id in self.results:`
CheckResult(c) ==
    /\ UNCHANGED <<blockVars, helperVars>>
    /\ frame[c].pc = "check"
    /\ IF frame[c].request_id \in DOMAIN results
       THEN frame' = [frame EXCEPT ![c].pc = "pop"]
       ELSE frame' = [frame EXCEPT ![c].pc = "loop"]
    /\ UNCHANGED <<is_async, async_timeout, now, request_queue, results, worker,
                   tstate, request_in_progress, issued, produced, consumed, late, early>>

\* Mutant: make_request pops the oldest entry of the registry.
PopKeyOldest(c) ==
    IF DOMAIN results = {} THEN frame[c].request_id
    ELSE CHOOSE k \in DOMAIN results : \A j \in DOMAIN results : k <= j

\* The key make_request pops from self.results.
PopKey(c) == frame[c].request_id

\* Mutant: the entry is read and left in place.
DictGet(d, key) == d

\* dict.pop(key): the dict without the key.
DictPop(d, key) == [k \in DOMAIN d \ {key} |-> d[k]]

\* result = self.results.pop(request_id); an Exception instance is raised,
\* anything else returned.
PopResult(c) ==
    /\ UNCHANGED <<blockVars, helperVars>>
    /\ frame[c].pc = "pop"
    /\ IF PopKey(c) \in DOMAIN results
       THEN /\ results' = DictPop(results, PopKey(c))
            /\ consumed' = consumed \cup {PopKey(c)}
            /\ frame' = [frame EXCEPT ![c] =
                   Done(c, IF isinstance_Exception(results[PopKey(c)])
                           THEN Raise(results[PopKey(c)])
                           ELSE Return(results[PopKey(c)]))]
       ELSE /\ UNCHANGED <<results, consumed>>
            /\ frame' = [frame EXCEPT ![c] = Done(c, Raise(ExceptionObj("KeyError")))]
    /\ early' = early \ {frame[c].request_id}
    /\ UNCHANGED <<is_async, async_timeout, now, request_queue, worker,
                   tstate, request_in_progress, issued, produced, late>>

\* -------------------------------------------------------- process_requests
\* Mutant: get returns the front item and leaves it in the queue.
QueueRestKept(q) == q

\* Queue.get: the item at the front, and the queue it leaves behind.
QueueFront(q) == Head(q)
QueueRest(q) == Tail(q)

\* id, args, kwargs = self.request_queue.get(), then the call of _make_request.
WorkerGet ==
    /\ UNCHANGED <<blockVars, helperVars>>
    /\ worker.pc = "get"
    /\ request_queue # <<>>
    /\ worker' = [pc |-> "call", id |-> QueueFront(request_queue)[1],
                  args |-> QueueFront(request_queue)[2],
                  response |-> JsonValue("None")]
    /\ request_queue' = QueueRest(request_queue)
    /\ tstate' = [tstate EXCEPT ![Worker] = "check"]
    /\ UNCHANGED <<is_async, async_timeout, now, results, frame,
                   request_in_progress, issued, produced, consumed, late, early>>

\* Mutant: no except clause, so an error raised by the transport ends the thread.
WorkerAfterCallUncaught(outcome) ==
    IF outcome.kind = "raise"
    THEN [worker EXCEPT !.pc = "dead"]
    ELSE [worker EXCEPT !.pc = "store", !.response = outcome.obj]

\* try: response = self._make_request(...) / except Exception as e: response = e
WorkerAfterCall(outcome) ==
    [worker EXCEPT !.pc = "store", !.response = outcome.obj]

\* Mutant: the response is stored under the most recently issued id.
StoreKeyLatest == issued

\* The key process_requests stores the response under.
StoreKey == worker.id

\* More than async_timeout has elapsed on the clock of the make_request that
\* enqueued the request with this id (since its start, hence since the
\* enqueue) and that is still waiting for it.
PastTimeout(id) ==
    \E c \in Callers :
        /\ frame[c].request_id = id
        /\ frame[c].pc \in {"loop", "check", "pop"}
        /\ now - frame[c].start > async_timeout

\* Less than async_timeout has elapsed on the clock of the make_request that
\* enqueued the request with this id and that is still waiting for it (a
\* caller that has not yet read its start time has an elapsed time of zero).
BeforeTimeout(id) ==
    \E c \in Callers :
        /\ frame[c].request_id = id
        /\ \/ frame[c].pc = "start"
           \/ /\ frame[c].pc \in {"loop", "check", "pop"}
              /\ now - frame[c].start < async_timeout

\* self.results[id] = response
WorkerStore ==
    /\ UNCHANGED <<blockVars, helperVars>>
    /\ worker.pc = "store"
    /\ results' = (StoreKey :> worker.response) @@ results
    /\ worker' = IdleWorker("get")
    /\ late' = IF PastTimeout(StoreKey) THEN late \cup {StoreKey} ELSE late
    /\ early' = IF BeforeTimeout(StoreKey) THEN early \cup {StoreKey} ELSE early
    /\ UNCHANGED <<is_async, async_timeout, now, request_queue, frame, tstate,
                   request_in_progress, issued, produced, consumed>>

\* ------------------------------------------------------------ _make_request
\* _make_request ends in thread t with outcome: the worker keeps the response,
\* a synchronous caller returns or raises it from make_request.
Finish(t, outcome) ==
    /\ tstate' = [tstate EXCEPT ![t] = "out"]
    /\ IF t = Worker
       THEN /\ worker' = WorkerAfterCall(outcome)
            /\ produced' = (worker.id :> outcome) @@ produced
            /\ UNCHANGED frame
       ELSE /\ frame' = [frame EXCEPT ![t] = Done(t, outcome)]
            /\ UNCHANGED <<worker, produced>>

\* `if self._request_in_progress is True: raise AsyncError(...)`
TransportCheck(t) ==
    /\ UNCHANGED <<blockVars, helperVars>>
    /\ tstate[t] = "check"
    /\ IF request_in_progress
       THEN Finish(t, Raise(AsyncError))
       ELSE /\ tstate' = [tstate EXCEPT ![t] = "set"]
            /\ UNCHANGED <<worker, frame, produced>>
    /\ UNCHANGED <<is_async, async_timeout, now, request_queue, results,
                   request_in_progress, issued, consumed, late, early>>

\* self._request_in_progress = True
TransportSet(t) ==
    /\ UNCHANGED <<blockVars, helperVars>>
    /\ tstate[t] = "set"
    /\ request_in_progress' = TRUE
    /\ tstate' = [tstate EXCEPT ![t] = "sleep"]
    /\ UNCHANGED <<is_async, async_timeout, now, request_queue, results, worker,
                   frame, issued, produced, consumed, late, early>>

\* time.sleep(1); self._request_in_progress = False; the result
TransportReturn(t) ==
    /\ UNCHANGED <<blockVars, helperVars>>
    /\ tstate[t] = "sleep"
    /\ request_in_progress' = FALSE
    /\ Finish(t, StubResult(TransportArgs(t)))
    /\ UNCHANGED <<is_async, async_timeout, now, request_queue, results, issued,
                   consumed, late, early>>

\* ------------------------------------------------------------ specification
WorkerNext ==
    \/ WorkerGet
    \/ WorkerStore
    \/ TransportCheck(Worker)
    \/ TransportSet(Worker)
    \/ TransportReturn(Worker)

CallerNext(c) ==
    \/ \E args \in RequestArgs : MakeRequest(c, args)
    \/ StartClock(c)
    \/ LoopTest(c)
    \/ CheckResult(c)
    \/ PopResult(c)
    \/ TransportCheck(c)
    \/ TransportSet(c)
    \/ TransportReturn(c)

Next ==
    \/ Tick
    \/ WorkerNext
    \/ \E c \in Callers : CallerNext(c)

Spec == Init /\ [][Next]_vars

\* ----------------------------------------------------------- wait_for_block
\* The block get_block_by_number(n) returns.
Block(n) == JsonValue(<<"block", n>>)

DidNotReachBlock == ExceptionObj("ValueError: Did not reach block")

\* Mutant: the loop test lets the deadline itself through.
WfbLoopTestPassesInclusive == now <= wfb.start + max_wait

\* Mutant: the loop never looks at the clock.
WfbLoopTestPassesAlways == TRUE

\* `time.time() < start + max_wait`, the test of wait_for_block's loop.
WfbLoopTestPasses == now < wfb.start + max_wait

\* Mutant: the target height itself does not end the wait.
ReachedBlockStrict(latest) == latest > block_number

\* `latest_block_number >= block_number`
ReachedBlock(latest) == latest >= block_number

\* A client that makes no requests of its own, and the arguments of the wait.
BlockInit ==
    /\ ClientInit
    /\ is_async = FALSE
    /\ async_timeout = 1
    /\ block_number \in 1..MaxHeight
    /\ max_wait \in 0..MaxWait
    /\ sleep_time \in 0..MaxSleep
    /\ wfb = [IdleWfb EXCEPT !.pc = "called"]
    /\ answers = <<>>
    /\ fetched = <<>>
    /\ HelpersOff

\* start = time.time()
WfbStart ==
    /\ UNCHANGED <<clientState, helperVars>>
    /\ wfb.pc = "called"
    /\ wfb' = [wfb EXCEPT !.pc = "test", !.start = now]
    /\ UNCHANGED <<now, block_number, max_wait, sleep_time, answers, fetched>>

\* The `while` test; its `else` clause: raise ValueError("Did not reach block").
WfbTest ==
    /\ UNCHANGED <<clientState, helperVars>>
    /\ wfb.pc = "test"
    /\ IF WfbLoopTestPasses
       THEN wfb' = [wfb EXCEPT !.pc = "query"]
       ELSE wfb' = [wfb EXCEPT !.pc = "done", !.ret = Raise(DidNotReachBlock)]
    /\ UNCHANGED <<now, block_number, max_wait, sleep_time, answers, fetched>>

\* latest_block_number = blockchain_client.get_block_number(), where the node
\* answers height h; `if latest_block_number >= block_number: break`.
WfbQuery(h) ==
    /\ UNCHANGED <<clientState, helperVars>>
    /\ wfb.pc = "query"
    /\ Len(answers) < MaxQueries
    /\ answers' = Append(answers, h)
    /\ wfb' = [wfb EXCEPT !.latest_block_number = h, !.asked = now,
                          !.pc = IF ReachedBlock(h) THEN "fetch" ELSE "sleep"]
    /\ UNCHANGED <<now, block_number, max_wait, sleep_time, fetched>>

\* time.sleep(sleep_time)
WfbSleep ==
    /\ UNCHANGED <<clientState, helperVars>>
    /\ wfb.pc = "sleep"
    /\ now + sleep_time <= MaxTime
    /\ now' = now + sleep_time
    /\ wfb' = [wfb EXCEPT !.pc = "test"]
    /\ UNCHANGED <<block_number, max_wait, sleep_time, answers, fetched>>

\* return blockchain_client.get_block_by_number(block_number)
WfbFetch ==
    /\ UNCHANGED <<clientState, helperVars>>
    /\ wfb.pc = "fetch"
    /\ fetched' = Append(fetched, block_number)
    /\ wfb' = [wfb EXCEPT !.pc = "done", !.ret = Return(Block(block_number))]
    /\ UNCHANGED <<now, block_number, max_wait, sleep_time, answers>>

WfbNext ==
    \/ WfbStart
    \/ WfbTest
    \/ \E h \in 0..MaxHeight : WfbQuery(h)
    \/ WfbSleep
    \/ WfbFetch

BlockNext ==
    \/ Tick
    \/ WfbNext

BlockSpec == BlockInit /\ [][BlockNext]_vars

\* ----------------------------------------------------- wait_for_transaction
\* The transaction whose receipt is awaited.
TxnHash == "0xtxn"

\* What get_transaction_receipt returns once the transaction is mined.
Receipt(txn_hash) == JsonValue(<<"receipt", txn_hash>>)

CouldNotGetReceipt ==
    ExceptionObj(<<"ValueError", "Could not get transaction receipt">>)

\* Mutant: the deadline itself already counts as passed.
WftDeadlinePassedInclusive == now >= wft.start + max_wait

\* `time.time() > start + max_wait`
WftDeadlinePassed == now > wft.start + max_wait

\* Mutant: the deadline is tested before the receipt is looked at.
WftBranchDeadlineFirst ==
    IF WftDeadlinePassed THEN "raise"
    ELSE IF wft.txn_receipt # PyNone THEN "break"
    ELSE "sleep"

\* `if txn_receipt is not None: break` / `elif time.time() > start + max_wait:
\* raise` / otherwise fall through to the sleep.
WftBranch ==
    IF wft.txn_receipt # PyNone THEN "break"
    ELSE IF WftDeadlinePassed THEN "raise"
    ELSE "sleep"

\* A client that makes no requests of its own, and the arguments of the wait.
TxnInit ==
    /\ ClientInit
    /\ is_async = FALSE
    /\ async_timeout = 1
    /\ block_number = 0
    /\ max_wait \in 0..MaxWait
    /\ sleep_time \in 0..MaxSleep
    /\ wfb = IdleWfb
    /\ answers = <<>>
    /\ fetched = <<>>
    /\ wft = [IdleWft EXCEPT !.pc = "called"]
    /\ receipts = <<>>
    /\ NonceOff
    /\ CacheOff

\* start = time.time()
WftStart ==
    /\ UNCHANGED <<clientVars, blockVars, nonceVars, cacheVars>>
    /\ wft.pc = "called"
    /\ wft' = [wft EXCEPT !.pc = "call", !.start = now]
    /\ UNCHANGED receipts

\* blockchain_client.get_transaction_receipt(txn_hash) is called: an attempt
\* begins.
WftCall ==
    /\ UNCHANGED <<clientVars, blockVars, nonceVars, cacheVars>>
    /\ wft.pc = "call"
    /\ Len(receipts) < MaxAttempts
    /\ wft' = [wft EXCEPT !.pc = "rpc", !.begun = now]
    /\ UNCHANGED receipts

\* txn_receipt = <what the node answered>: the attempt ends with r.
WftAnswer(r) ==
    /\ UNCHANGED <<clientVars, blockVars, nonceVars, cacheVars>>
    /\ wft.pc = "rpc"
    /\ receipts' = Append(receipts, r)
    /\ wft' = [wft EXCEPT !.pc = "check", !.txn_receipt = r]

\* The if / elif after the attempt; `return txn_receipt` after the break.
WftCheck ==
    /\ UNCHANGED <<clientVars, blockVars, nonceVars, cacheVars>>
    /\ wft.pc = "check"
    /\ wft' = CASE WftBranch = "break" ->
                     [wft EXCEPT !.pc = "done", !.ret = Return(wft.txn_receipt)]
                [] WftBranch = "raise" ->
                     [wft EXCEPT !.pc = "done", !.ret = Raise(CouldNotGetReceipt)]
                [] OTHER -> [wft EXCEPT !.pc = "sleep"]
    /\ UNCHANGED receipts

\* time.sleep(sleep_time)
WftSleep ==
    /\ UNCHANGED <<clientState, blockVars, nonceVars, cacheVars>>
    /\ wft.pc = "sleep"
    /\ now + sleep_time <= MaxTime
    /\ now' = now + sleep_time
    /\ wft' = [wft EXCEPT !.pc = "call"]
    /\ UNCHANGED receipts

WftNext ==
    \/ WftStart
    \/ WftCall
    \/ \E r \in {PyNone, Receipt(TxnHash)} : WftAnswer(r)
    \/ WftCheck
    \/ WftSleep

TxnNext ==
    \/ Tick
    \/ WftNext

TxnSpec == TxnInit /\ [][TxnNext]_vars

\* ---------------------------------------------------------------- get_nonce
\* The threads inside get_nonce.
InGetNonce == {c \in Callers : gn[c].pc \in {"load", "store", "return"}}

\* The greatest value get_nonce has returned so far (0 when none).
GreatestReturned ==
    IF returned = <<>> THEN 0
    ELSE CHOOSE v \in {returned[k] : k \in DOMAIN returned} :
             \A k \in DOMAIN returned : returned[k] <= v

\* A synchronous client: _make_request, and with it construct_json_request
\* and get_nonce, runs on the threads of the callers.
NonceInit ==
    /\ ClientInit
    /\ is_async = FALSE
    /\ async_timeout = 1
    /\ BlockOff
    /\ HelpersOff

\* Thread c calls get_nonce (from construct_json_request).
GetNonce(c) ==
    /\ UNCHANGED <<clientVars, blockVars, txnVars, cacheVars>>
    /\ gn[c].pc \in {"idle", "done"}
    /\ Len(returned) + Cardinality(InGetNonce) < MaxNonceCalls
    /\ gn' = [gn EXCEPT ![c] = [IdleGn EXCEPT !.pc = "load",
                                              !.floor = GreatestReturned]]
    /\ UNCHANGED <<nonce, returned>>

\* `self._nonce += 1`, first half: the attribute is read.
NonceLoad(c) ==
    /\ UNCHANGED <<clientVars, blockVars, txnVars, cacheVars>>
    /\ gn[c].pc = "load"
    /\ gn' = [gn EXCEPT ![c].pc = "store", ![c].tmp = nonce]
    /\ UNCHANGED <<nonce, returned>>

\* `self._nonce += 1`, second half: the sum is stored back.
NonceStore(c) ==
    /\ UNCHANGED <<clientVars, blockVars, txnVars, cacheVars>>
    /\ gn[c].pc = "store"
    /\ nonce' = gn[c].tmp + 1
    /\ gn' = [gn EXCEPT ![c].pc = "return"]
    /\ UNCHANGED returned

\* `return self._nonce`: the attribute is read again.
NonceReturn(c) ==
    /\ UNCHANGED <<clientVars, blockVars, txnVars, cacheVars>>
    /\ gn[c].pc = "return"
    /\ gn' = [gn EXCEPT ![c].pc = "done", ![c].ret = nonce]
    /\ returned' = Append(returned, nonce)
    /\ UNCHANGED nonce

NonceNext ==
    \E c \in Callers :
        \/ GetNonce(c)
        \/ NonceLoad(c)
        \/ NonceStore(c)
        \/ NonceReturn(c)

NonceSpec == NonceInit /\ [][NonceNext]_vars

\* ----------------------------------------------------- default_from_address
\* The 30 of `time.time - self._coinbase_cache_til > 30`.
CacheTTL == 30

\* The addresses the node may report as its coinbase.
Addresses == {JsonValue("0xa"), JsonValue("0xb")}

\* `time.time - self._coinbase_cache_til`: the function object time.time, not
\* its result, is the left operand, and a function minus a number raises.
FunctionMinusNumber == ExceptionObj("TypeError: unsupported operand type(s) for -")

\* A client whose default_from_address is read by one thread.
CacheInit ==
    /\ ClientInit
    /\ is_async = FALSE
    /\ async_timeout = 1
    /\ BlockOff
    /\ HelpersOff

\* More than the lifetime of a cached coinbase passes at once.
LongWait ==
    /\ UNCHANGED <<clientState, blockVars, txnVars, nonceVars>>
    /\ now <= MaxTime
    /\ now' = now + CacheTTL + 1
    /\ UNCHANGED <<coinbase_cache, coinbase_cache_til, dfa, cached_at, reads>>

\* The property default_from_address is read.
DfaRead ==
    /\ UNCHANGED <<clientVars, blockVars, txnVars, nonceVars>>
    /\ dfa.pc \in {"idle", "done"}
    /\ reads < MaxReads
    /\ reads' = reads + 1
    /\ dfa' = [IdleDfa EXCEPT !.pc = "expire"]
    /\ UNCHANGED <<coinbase_cache, coinbase_cache_til, cached_at>>

\* `if self._coinbase_cache_til is not None:` and the expiry test inside it.
DfaExpire ==
    /\ UNCHANGED <<clientVars, blockVars, txnVars, nonceVars>>
    /\ dfa.pc = "expire"
    /\ IF coinbase_cache_til # PyNone
       THEN dfa' = [dfa EXCEPT !.pc = "done", !.ret = Raise(FunctionMinusNumber)]
       ELSE dfa' = [dfa EXCEPT !.pc = "fill"]
    /\ UNCHANGED <<coinbase_cache, coinbase_cache_til, cached_at, reads>>

\* `if self._coinbase_cache is None: self._coinbase_cache = self.get_coinbase()`,
\* where the node reports address a.
DfaFill(a) ==
    /\ UNCHANGED <<clientVars, blockVars, txnVars, nonceVars>>
    /\ dfa.pc = "fill"
    /\ IF coinbase_cache = PyNone
       THEN coinbase_cache' = a /\ cached_at' = now
       ELSE UNCHANGED <<coinbase_cache, cached_at>>
    /\ dfa' = [dfa EXCEPT !.pc = "return"]
    /\ UNCHANGED <<coinbase_cache_til, reads>>

\* return self._coinbase_cache
DfaReturn ==
    /\ UNCHANGED <<clientVars, blockVars, txnVars, nonceVars>>
    /\ dfa.pc = "return"
    /\ dfa' = [dfa EXCEPT !.pc = "done", !.ret = Return(coinbase_cache)]
    /\ UNCHANGED <<coinbase_cache, coinbase_cache_til, cached_at, reads>>

DfaNext ==
    \/ DfaRead
    \/ DfaExpire
    \/ \E a \in Addresses : DfaFill(a)
    \/ DfaReturn

CacheNext ==
    \/ Tick
    \/ LongWait
    \/ DfaNext

CacheSpec == CacheInit /\ [][CacheNext]_vars

\* The worker is a thread the scheduler keeps running, and the transport returns.
FairSpec == Spec /\ WF_vars(WorkerNext)

\* The steps of caller c inside an asynchronous make_request after the put.
PollStep(c) ==
    \/ StartClock(c)
    \/ LoopTest(c)
    \/ CheckResult(c)
    \/ PopResult(c)

\* The callers' threads keep running and time keeps passing; the worker may
\* stop at any point, and with it the transport call it is in.
PollSpec ==
    /\ Spec
    /\ WF_vars(Tick)
    /\ \A c \in Callers : WF_vars(PollStep(c))

\* ------------------------------------------------------------------- claims
\* Caller c's make_request has ended with the timeout error.
TimedOut(c) ==
    /\ frame[c].pc = "done"
    /\ frame[c].ret = Raise(TimeoutValueError(frame[c].request_id))

\* Caller c's asynchronous make_request has ended with an outcome of the registry.
Completed(c) == is_async /\ frame[c].pc = "done" /\ ~TimedOut(c)

\* The ids waiting in the request queue.
QueuedIds == {request_queue[k][1] : k \in DOMAIN request_queue}

\* C1: in asynchronous mode at most one thread is inside _make_request at any
\* instant, and the stub's re-entrancy guard never raises.
C1_AtMostOneInFlight ==
    is_async =>
        /\ Cardinality(InTransport) <= 1
        /\ \A i \in DOMAIN produced : produced[i] # Raise(AsyncError)
        /\ \A c \in Callers : frame[c].ret # Raise(AsyncError)

\* Two callers wait on their requests while the worker is inside the transport.
C1_Witness ==
    /\ is_async
    /\ InTransport = {Worker}
    /\ tstate[Worker] = "sleep"
    /\ request_queue # <<>>
    /\ \A c \in Callers : frame[c].pc \in {"loop", "check"}

\* C2: in synchronous mode every caller inside make_request is executing
\* _make_request on its own thread, whatever the other callers are doing:
\* nothing is queued and nothing makes it wait for another caller's call.
C2_SyncRunsOnCallerThread ==
    ~is_async =>
        /\ \A c \in Callers : frame[c].pc \notin {"idle", "done"} <=> c \in InTransport
        /\ request_queue = <<>>
        /\ Worker \notin InTransport

\* A caller entered _make_request while another call was executing, and the
\* stub's guard raised.
C2_Witness ==
    /\ ~is_async
    /\ \E c, d \in Callers :
          /\ c # d
          /\ frame[c].pc = "done" /\ frame[c].ret = Raise(AsyncError)
          /\ tstate[d] = "sleep"

\* C3: an asynchronous make_request that returns a value returns the value the
\* transport returns for the same (method, params), and one whose transport
\* call returns a value, and that does not time out, returns it.
C3_AsyncEqualsDirect ==
    \A c \in Callers :
        Completed(c) =>
            /\ frame[c].ret.kind = "return" => frame[c].ret = StubResult(frame[c].args)
            /\ StubResult(frame[c].args).kind = "return" =>
                   frame[c].ret = StubResult(frame[c].args)

\* An asynchronous call has returned the transport's value.
C3_Witness ==
    \E c \in Callers :
        /\ Completed(c)
        /\ frame[c].ret.kind = "return"
        /\ frame[c].ret.obj = JsonValue(<<"result", frame[c].args>>)

\* C4: when the transport raises for a request, the asynchronous make_request
\* that submitted it raises that same error unless it timed out first; a call
\* whose transport call succeeded never raises anything but the timeout error.
C4_FailureReraised ==
    \A c \in Callers :
        Completed(c) =>
            /\ StubResult(frame[c].args).kind = "raise" =>
                   frame[c].ret = StubResult(frame[c].args)
            /\ frame[c].ret.kind = "raise" =>
                   /\ StubResult(frame[c].args).kind = "raise"
                   /\ frame[c].ret.obj = StubResult(frame[c].args).obj

\* One caller has raised the transport's error while the other, whose request
\* succeeded, has returned its value.
C4_Witness ==
    \E c, d \in Callers :
        /\ c # d
        /\ Completed(c) /\ Completed(d)
        /\ frame[c].ret = Raise(ExceptionObj(<<"TransportError", frame[c].args>>))
        /\ frame[d].ret.kind = "return"

\* Every request submitted so far has been executed by the worker and its
\* outcome, an error included, published in the registry (where it stays until
\* make_request pops it).
AllServed ==
    \A i \in 1..issued :
        /\ i \in DOMAIN produced
        /\ i \in DOMAIN results \/ i \in consumed
        /\ i \in DOMAIN results => results[i] = produced[i].obj

\* C5: the worker thread stays alive whatever the transport raises, and it
\* always catches up: from any moment on it reaches a state in which every
\* request queued so far has been dequeued, executed and published.
C5_WorkerServesAll ==
    /\ [](is_async => worker.pc \in {"get", "call", "store"})
    /\ []<>(is_async => AllServed)

\* The transport raised for the first request and the worker went on to
\* publish the outcome of the second.
C5_Witness ==
    /\ 1 \in DOMAIN produced /\ produced[1].kind = "raise"
    /\ 2 \in DOMAIN produced
    /\ 2 \in DOMAIN results

\* C6 as stated: a make_request whose outcome was not yet in the registry when
\* more than async_timeout had elapsed since its start (and so since the
\* request was enqueued) ends with the timeout error, never with that outcome.
C6_FailsWhenOutcomeLate ==
    \A c \in Callers :
        (is_async /\ frame[c].pc = "done" /\ frame[c].request_id \in late)
            => TimedOut(c)

\* C6, amended: make_request raises the timeout error exactly at the first
\* test of its polling loop at which async_timeout has elapsed since start,
\* which is no earlier than async_timeout after the request was enqueued; an
\* iteration entered before that still reads the registry, and a call that
\* ends without its id ever having been published ends with the timeout error.
C6_TimeoutTiming ==
    /\ [][\A c \in Callers :
             (frame[c].pc = "loop" /\ frame'[c] # frame[c]) =>
                 /\ TimedOut(c)' <=> now - frame[c].start >= async_timeout
                 /\ TimedOut(c)' => now - frame[c].enq >= async_timeout
                 /\ ~TimedOut(c)' => frame'[c].pc = "check"]_vars
    /\ [](\A c \in Callers :
             (is_async /\ frame[c].pc = "done"
                       /\ frame[c].request_id \notin DOMAIN produced)
                 => TimedOut(c))

\* A call has timed out while its request was still waiting in the queue.
C6_Witness ==
    \E c \in Callers :
        /\ is_async
        /\ TimedOut(c)
        /\ frame[c].request_id \in QueuedIds

\* C7: an id that make_request has popped is absent from the registry from
\* then on, and no id is popped twice.
C7_ConsumedOnce ==
    /\ [](consumed \cap DOMAIN results = {})
    /\ [][\A c \in Callers :
             (frame[c].pc = "pop" /\ frame'[c].pc = "done") =>
                 /\ PopKey(c) \notin consumed
                 /\ PopKey(c) \in DOMAIN results
                 /\ PopKey(c) \notin DOMAIN results']_vars

\* An outcome was consumed and the same caller is polling for a later request.
C7_Witness ==
    \E c \in Callers :
        /\ consumed # {}
        /\ frame[c].pc = "check"
        /\ frame[c].request_id \notin consumed
        /\ \E i \in consumed : i < frame[c].request_id

\* C8: what an asynchronous make_request returns or raises (other than the
\* timeout error) is the outcome the worker obtained for the request with this
\* call's own id.
C8_MatchedById ==
    \A c \in Callers :
        Completed(c) =>
            /\ frame[c].request_id \in DOMAIN produced
            /\ frame[c].ret = produced[frame[c].request_id]

\* Both callers have their own, different outcomes, the later request's
\* caller having finished while the earlier one's outcome was still unread.
C8_Witness ==
    \E c, d \in Callers :
        /\ Completed(c)
        /\ frame[d].pc \in {"loop", "check", "pop"}
        /\ frame[d].request_id < frame[c].request_id
        /\ frame[d].request_id \in DOMAIN results
        /\ produced[frame[d].request_id] # produced[frame[c].request_id]

\* The height queries that returned a height at or above the target.
ReachedAt == {j \in DOMAIN answers : answers[j] >= block_number}

\* C9: the first height query that returns a height >= block_number is the
\* last query made; wait_for_block then fetches block_number, once, and
\* returns that block, and it returns a block in no other case.
C9_ReturnsAtFirstReach ==
    /\ ReachedAt # {} =>
          /\ ReachedAt = {Len(answers)}
          /\ wfb.pc \in {"fetch", "done"}
          /\ wfb.pc = "done" =>
                /\ wfb.ret = Return(Block(block_number))
                /\ fetched = <<block_number>>
    /\ wfb.pc = "fetch" => fetched = <<>>
    /\ ReachedAt = {} => (fetched = <<>> /\ wfb.ret.kind # "return")

\* Heights 0, 1, 2 against target 2: the block is returned after three queries.
C9_Witness ==
    /\ block_number = 2
    /\ answers = <<0, 1, 2>>
    /\ wfb.pc = "done"
    /\ wfb.ret = Return(Block(2))

\* C10: the deadline error is raised exactly at the first loop test at which
\* max_wait has elapsed since start, never earlier; while no query has
\* reached the target, wait_for_block returns no block and can only end with
\* the deadline error.
C10_DeadlineError ==
    /\ [][(wfb.pc = "test" /\ wfb' # wfb) =>
             /\ wfb'.ret = Raise(DidNotReachBlock) <=> now - wfb.start >= max_wait
             /\ wfb'.ret # Raise(DidNotReachBlock) => wfb'.pc = "query"]_vars
    /\ [](wfb.ret = Raise(DidNotReachBlock) => (wfb.pc = "done" /\ ReachedAt = {}))
    /\ []((wfb.pc = "done" /\ ReachedAt = {}) => wfb.ret = Raise(DidNotReachBlock))

\* The height stayed below the target over several queries and the wait
\* ended with the deadline error, past max_wait.
C10_Witness ==
    /\ wfb.pc = "done"
    /\ wfb.ret = Raise(DidNotReachBlock)
    /\ Len(answers) >= 2
    /\ now - wfb.start > max_wait
    /\ max_wait > 0

\* The answers of get_transaction_receipt before the latest one.
EarlierReceipts == {receipts[k] : k \in 1..(Len(receipts) - 1)}

\* C11: wait_for_transaction returns the first receipt that is not None: as
\* soon as an attempt yields one, the next step returns that receipt, whatever
\* the clock says, with no sleep and no further attempt; every earlier attempt
\* yielded None.
C11_ReturnsFirstReceipt ==
    /\ [][(wft.pc = "check" /\ wft.txn_receipt # PyNone /\ wft' # wft) =>
             /\ wft'.pc = "done"
             /\ wft'.ret = Return(wft.txn_receipt)
             /\ now' = now
             /\ receipts' = receipts]_vars
    /\ []((wft.pc = "done" /\ wft.ret.kind = "return") =>
             /\ receipts # <<>>
             /\ wft.ret.obj = receipts[Len(receipts)]
             /\ wft.ret.obj # PyNone
             /\ EarlierReceipts \subseteq {PyNone})
    /\ [][wft.pc = "done" => (wft' = wft /\ receipts' = receipts)]_vars

\* Three attempts found no receipt, the fourth did and was returned.
C11_Witness ==
    /\ wft.pc = "done"
    /\ wft.ret = Return(Receipt(TxnHash))
    /\ Len(receipts) = 4
    /\ EarlierReceipts = {PyNone}

\* C12: the deadline of wait_for_transaction is tested only after an attempt
\* that yielded None: such an attempt raises exactly when the elapsed time is
\* then strictly above max_wait and sleeps otherwise; no other step raises, so
\* at least one attempt is made and an attempt may begin after the deadline.
C12_DeadlineAfterAttempt ==
    /\ [][(wft.pc = "check" /\ wft.txn_receipt = PyNone /\ wft' # wft) =>
             IF now - wft.start > max_wait
             THEN wft'.pc = "done" /\ wft'.ret = Raise(CouldNotGetReceipt)
             ELSE wft'.pc = "sleep"]_vars
    /\ [][(wft.pc \in {"called", "call", "rpc", "sleep"}) => wft'.pc # "done"]_vars
    /\ [](wft.pc = "done" => receipts # <<>>)
    /\ []((wft.pc = "done" /\ wft.ret.kind = "raise") =>
             /\ wft.ret = Raise(CouldNotGetReceipt)
             /\ {receipts[k] : k \in DOMAIN receipts} = {PyNone})

\* The second attempt began after the deadline and the wait then failed.
C12_Witness ==
    /\ wft.pc = "done"
    /\ wft.ret = Raise(CouldNotGetReceipt)
    /\ Len(receipts) = 2
    /\ wft.begun - wft.start > max_wait
    /\ max_wait > 0

\* C13: the values get_nonce returns are pairwise distinct, and each is
\* greater than every value returned by a call that completed before the
\* call began, also when the calls run concurrently on different threads.
C13_NonceRaceFree ==
    /\ \A i, j \in DOMAIN returned : i # j => returned[i] # returned[j]
    /\ \A c \in Callers : gn[c].pc = "done" => gn[c].ret > gn[c].floor

\* C14: every value default_from_address returns was obtained from
\* get_coinbase at most 30 time units before the return: an older cached
\* value is discarded and fetched again by the read.
C14_CacheFresh ==
    [][(dfa.pc = "return" /\ dfa'.pc = "done") =>
          /\ dfa'.ret.kind = "return"
          /\ now - cached_at <= CacheTTL]_vars

\* The ids of the requests whose transport call has begun: those whose call
\* has ended and the one the worker has in hand.
Started ==
    DOMAIN produced \cup (IF worker.pc \in {"call", "store"} THEN {worker.id} ELSE {})

\* C15: the worker begins the transport calls in the order in which the
\* requests were enqueued (ids are handed out in that order): a call begins
\* only when the call of every request enqueued earlier has ended, and the
\* requests still queued were all enqueued later, in queue order.
C15_FifoOrder ==
    is_async =>
        /\ \A i \in Started : \A j \in 1..issued :
               j < i => (j \in DOMAIN produced /\ j \notin QueuedIds)
        /\ \A i \in Started : \A j \in QueuedIds : i < j
        /\ \A k \in DOMAIN request_queue : \A m \in DOMAIN request_queue :
               k < m => request_queue[k][1] < request_queue[m][1]
        /\ Cardinality(Started \ DOMAIN produced) <= 1

\* The earlier request's call has ended and the later request's call is
\* running, after both had been waiting in the queue's order.
C15_Witness ==
    /\ is_async
    /\ worker.pc = "call"
    /\ worker.id = 2
    /\ tstate[Worker] = "sleep"
    /\ 1 \in DOMAIN produced
    /\ \A c \in Callers : frame[c].pc \in {"loop", "check"} /\ frame[c].enq = 0

\* The places a request can be in: waiting in the queue (once per position),
\* in the worker's hand for its transport call, or past that call.
Places(i) ==
    Cardinality({k \in DOMAIN request_queue : request_queue[k][1] = i})
    + (IF worker.pc = "call" /\ worker.id = i THEN 1 ELSE 0)
    + (IF i \in DOMAIN produced THEN 1 ELSE 0)

\* C16: every enqueued request is in exactly one place (queued, in its
\* transport call, or executed), so it is dequeued and executed at most once
\* and never lost; the worker publishes each executed request's outcome once,
\* under an id the registry does not hold and never held, and the registry
\* holds only ids that were dequeued and executed.
C16_ExactlyOnce ==
    /\ [](is_async =>
            /\ \A i \in 1..issued : Places(i) = 1
            /\ DOMAIN results \subseteq DOMAIN produced
            /\ DOMAIN results \cap consumed = {}
            /\ \A i \in DOMAIN produced :
                   \/ worker.pc = "store" /\ worker.id = i
                   \/ i \in DOMAIN results
                   \/ i \in consumed)
    /\ [][(worker.pc = "store" /\ worker' # worker) =>
             /\ worker.id \notin DOMAIN results
             /\ worker.id \notin consumed
             /\ DOMAIN results' = DOMAIN results \cup {worker.id}
             /\ results'[worker.id] = produced[worker.id].obj
             /\ \A i \in DOMAIN results : results'[i] = results[i]]_vars
    /\ [][produced' # produced =>
             /\ worker.pc = "call"
             /\ worker.id \notin DOMAIN produced
             /\ DOMAIN produced' = DOMAIN produced \cup {worker.id}
             /\ \A i \in DOMAIN produced : produced'[i] = produced[i]]_vars

\* Two requests were each executed and published once; both entries are in
\* the registry.
C16_Witness ==
    /\ is_async
    /\ DOMAIN results = {1, 2}
    /\ DOMAIN produced = {1, 2}
    /\ request_queue = <<>>
    /\ worker.pc = "get"

\* Caller c is inside an asynchronous make_request.
Waiting(c) == frame[c].pc \in {"start", "loop", "check", "pop"}

\* The requests whose make_request ended without taking an outcome from the
\* registry, that is, with the timeout error.
Abandoned ==
    {i \in 1..issued :
        /\ i \notin consumed
        /\ \A c \in Callers : ~(Waiting(c) /\ frame[c].request_id = i)}

\* C17: a request whose make_request timed out is not cancelled: it stays
\* queued, in its transport call or executed; under a fair worker its outcome
\* is written to the registry; and once there the entry is never removed or
\* changed by any later step.
C17_NoCancellation ==
    /\ [](is_async => \A i \in Abandoned : Places(i) = 1)
    /\ [][is_async =>
             \A i \in Abandoned :
                 /\ i \in Abandoned'
                 /\ i \in DOMAIN results =>
                        (i \in DOMAIN results' /\ results'[i] = results[i])]_vars
    /\ []<>(is_async => Abandoned \subseteq DOMAIN results)

\* A make_request timed out, its outcome was written afterwards and is still
\* in the registry after another request was served and consumed.
C17_Witness ==
    /\ is_async
    /\ \E c \in Callers :
           /\ TimedOut(c)
           /\ frame[c].request_id \in DOMAIN results
           /\ frame[c].request_id \in late
    /\ \E i \in consumed : i \notin Abandoned

\* C18: in every iteration wait_for_block tests its deadline first, before
\* the height query and the sleep: a query follows only a test that found
\* elapsed < max_wait, it is then issued whatever the clock has become, and its
\* answer decides between fetching the block and sleeping without a look at
\* the deadline; after the sleep the deadline is tested again.
C18_DeadlineTestedFirst ==
    /\ [][(wfb.pc = "test" /\ wfb'.pc = "query") =>
             now - wfb.start < max_wait]_vars
    /\ [][(wfb.pc = "query" /\ wfb' # wfb) =>
             /\ wfb'.asked = now
             /\ Len(answers') = Len(answers) + 1
             /\ wfb'.pc = IF wfb'.latest_block_number >= block_number
                          THEN "fetch" ELSE "sleep"]_vars
    /\ [][(wfb.pc = "sleep" /\ wfb' # wfb) => wfb'.pc = "test"]_vars
    /\ [](wfb.pc \in {"query", "sleep", "fetch"} => max_wait > 0)

\* The last height query was issued when max_wait had already elapsed, found
\* the target height, and the block was returned.
C18_Witness ==
    /\ wfb.pc = "done"
    /\ wfb.ret.kind = "return"
    /\ Len(answers) >= 2
    /\ wfb.asked - wfb.start >= max_wait

\* The deadline of caller c's make_request lies beyond the last instant of
\* the modelled clock.
BeyondHorizon(c) ==
    /\ frame[c].pc \in {"loop", "check", "pop"}
    /\ frame[c].start + async_timeout > MaxTime

\* C19: an asynchronous make_request never blocks and always ends, whether or
\* not the worker and the transport make progress: a caller inside it always
\* has a step to take, every call whose deadline the clock can reach ends,
\* and it ends with the timeout error or with the outcome of its own request
\* (returned, or raised when it is an error).
C19_Terminates ==
    /\ [](is_async => \A c \in Callers : Waiting(c) => ENABLED PollStep(c))
    /\ []<>(is_async => \A c \in Callers : ~Waiting(c) \/ BeyondHorizon(c))
    /\ [](is_async => \A c \in Callers : frame[c].pc = "done" =>
            \/ TimedOut(c)
            \/ /\ frame[c].request_id \in consumed
               /\ frame[c].ret.obj = produced[frame[c].request_id].obj
               /\ frame[c].ret.kind =
                      IF isinstance_Exception(frame[c].ret.obj)
                      THEN "raise" ELSE "return")

\* A make_request ended with the timeout error although the worker never
\* took its request from the queue.
C19_Witness ==
    /\ is_async
    /\ \E c \in Callers : TimedOut(c) /\ frame[c].request_id \in QueuedIds
    /\ produced = <<>>
    /\ worker.pc = "get"

\* C20: a make_request whose outcome the worker published before the call's
\* timeout had elapsed does not end with the timeout error (it returns or
\* re-raises that outcome, and the entry leaves the registry).
C20_NoTimeoutWhenPublished ==
    is_async =>
        \A c \in Callers :
            (TimedOut(c) /\ frame[c].request_id \in early) =>
                frame[c].request_id \notin DOMAIN results

====
